---- MODULE Spec2Model ----
(***************************************************************************)
(* Model of lib/misc/factory_code_generator.js (node-opcua).               *)
(*                                                                         *)
(* produce_code turns a resolved schema into the text of a class: a        *)
(* constructor, enumeration accessors, an encode and a decode method.  The *)
(* generated text is modelled as data (sequences of statements, one per    *)
(* write(...) call that emits executable code) and the statements are      *)
(* given the meaning of the JavaScript they contain by the interpreters    *)
(* below.                                                                  *)
(*                                                                         *)
(* The same source file holds the Subscription of the publish service: a   *)
(* timer-driven object that counts ticks, emits notifications, keep-alives *)
(* and its own expiry.  It is modelled by a second specification, SubSpec, *)
(* over variables of its own.                                              *)
(***************************************************************************)
EXTENDS Integers, Sequences, FiniteSets, TLC

VARIABLES
    schemas,                \* the schema objects (mutable: baseType, id)
    outcome,                \* how the last produce_code of each schema ended
    files,                  \* generated source files on disk (f.save)
    classes,                \* generated modules loaded by require
    registered,             \* names passed to register_class_definition
    next_available_id,      \* the counter behind generate_new_id
    idLog,                  \* every value drawn from the counter, with its type
    encodingDefaultBinary,  \* <Class>.prototype.encodingDefaultBinary
    obj,                    \* the instance under test (or NoObject)
    stream,                 \* the words written by the last encode
    decoded,                \* the instance filled by the last decode
    ctorTrace,              \* what the last constructor call did, in order
    encodeTrace,            \* what the last encode did, in order
    decodeTrace,            \* what the last decode did, in order
    last,                   \* the last operation and its outcome
    doDebug,                \* schema_helpers.doDebug
    sub,                    \* the fields of the Subscription (or NoSubscription)
    immediate,              \* the callback given to setImmediate is still to run
    emitted,                \* the events the Subscription emitted, in order
    seen                    \* what an observer of the Subscription has counted

genVars == <<schemas, outcome, files, classes, registered, next_available_id, idLog,
             encodingDefaultBinary, obj, stream, decoded, ctorTrace,
             encodeTrace, decodeTrace, last, doDebug>>

subVars == <<sub, immediate, emitted, seen>>

vars == <<schemas, outcome, files, classes, registered, next_available_id, idLog,
          encodingDefaultBinary, obj, stream, decoded, ctorTrace,
          encodeTrace, decodeTrace, last, doDebug, sub, immediate, emitted, seen>>

-----------------------------------------------------------------------------
(* Bounds of the model *)

\* longest field list of the schema under test
MaxFields == 2
\* length of the arrays supplied as options
MaxLen == 2

-----------------------------------------------------------------------------
(* JavaScript values *)

Undefined == [k |-> "undefined"]
Null == [k |-> "null"]
Num(n) == [k |-> "number", v |-> n]
Str(s) == [k |-> "string", v |-> s]
Arr(s) == [k |-> "array", v |-> s]
Obj(m) == [k |-> "object", v |-> m]
Inst(t, f) == [k |-> "instance", type |-> t, f |-> f]
EnumItem(e, key, value) == [k |-> "enumitem", enum |-> e, key |-> key, value |-> value]

IsNullish(x) == x.k \in {"undefined", "null"}

\* JavaScript truthiness, as used by `if (options.x)` and `a || b`
Truthy(x) ==
    /\ ~IsNullish(x)
    /\ (x.k = "number" => x.v # 0)
    /\ (x.k = "string" => x.v # "")

\* every property name that occurs in the model
FieldNames == {"serial", "kind", "count", "tags", "color", "point", "extra",
               "next", "items", "olds", "raw", "x"}

NoProps == [n \in FieldNames |-> Undefined]

\* o.n : reading a property of a primitive yields undefined
Get(o, n) ==
    CASE o.k = "object" -> o.v[n]
      [] o.k = "instance" -> o.f[n]
      [] OTHER -> Undefined

-----------------------------------------------------------------------------
(* The collaborators of the generator, as the specification describes them *)

ROOT == "BaseUAObject"
RUNTIME_GENERATED_ID == -1

\* _enumerations: the registered enumerations and their members
Members(e) ==
    IF e = "Color"
    THEN {EnumItem("Color", "RED", 1), EnumItem("Color", "GREEN", 2)}
    ELSE {}

\* _enumerations.<e>.typedEnum.get(value): the member named by a symbolic
\* name, a numeric ordinal or a member; undefined or null otherwise
typedEnumGet(e, value) ==
    CASE value.k = "enumitem" ->
            IF value \in Members(e) THEN value ELSE Null
      [] value.k = "string" ->
            IF \E m \in Members(e) : m.key = value.v
            THEN CHOOSE m \in Members(e) : m.key = value.v
            ELSE Undefined
      [] value.k = "number" ->
            IF \E m \in Members(e) : m.value = value.v
            THEN CHOOSE m \in Members(e) : m.value = value.v
            ELSE Null
      [] OTHER -> Null

\* the default of a field without defaultValue: the type's own default
TypeDefault(field) ==
    IF field.category = "enumeration"
    THEN CHOOSE m \in Members(field.fieldType) :
            \A o \in Members(field.fieldType) : m.value <= o.value
    ELSE Num(0)

\* schema_helpers.initialize_field: the supplied value, or the default
initialize_field(field, value) ==
    IF IsNullish(value)
    THEN IF field.hasDefault THEN field.defaultValue ELSE TypeDefault(field)
    ELSE value

\* schema_helpers.initialize_field_array: a fresh sequence
initialize_field_array(field, value) ==
    IF IsNullish(value)
    THEN IF field.hasDefault THEN field.defaultValue ELSE Arr(<<>>)
    ELSE value

\* objectNodeIds[name + "_Encoding_DefaultBinary"]
objectNodeIds(name) ==
    CASE name = "Base" -> Num(11)
      [] name = "Mid" -> Num(12)
      [] OTHER -> Undefined

\* ec.makeExpandedNodeId(value)
makeExpandedNodeId(value) == [value |-> value, namespace |-> 0]

-----------------------------------------------------------------------------
(* Schemas *)

Field(name, fieldType, category, isArray, hasDefault, defaultValue, hasDecode) ==
    [name |-> name, fieldType |-> fieldType, category |-> category,
     isArray |-> isArray, hasDefault |-> hasDefault,
     defaultValue |-> defaultValue, hasDecode |-> hasDecode]

Schema(name, baseType, id, fields, hook, enc, dec, dbg) ==
    [name |-> name, baseType |-> baseType, id |-> id, fields |-> fields,
     construct_hook |-> hook, encode |-> enc, decode |-> dec,
     decode_debug |-> dbg]

\* the field descriptors the schema under test draws from
FieldPool == <<
    Field("count", "UInt32", "basic", FALSE, FALSE, Undefined, FALSE),
    Field("tags", "UInt32", "basic", TRUE, FALSE, Undefined, FALSE),
    Field("color", "Color", "enumeration", FALSE, FALSE, Undefined, FALSE),
    Field("point", "Point", "complex", FALSE, FALSE, Undefined, FALSE),
    Field("extra", "Point", "complex", FALSE, TRUE, Null, FALSE),
    Field("next", "T", "complex", FALSE, FALSE, Undefined, FALSE),
    Field("items", "Point", "complex", TRUE, FALSE, Undefined, FALSE) >>

\* field lists with a defaulted array of complex values and with a field
\* that brings its own decode function
SpecialLists == {
    <<Field("olds", "Point", "complex", TRUE, TRUE, Arr(<<>>), FALSE)>>,
    <<Field("raw", "UInt32", "basic", FALSE, FALSE, Undefined, TRUE),
      Field("count", "UInt32", "basic", FALSE, FALSE, Undefined, FALSE)>> }

\* the lists of at most n distinct fields of the pool, in the order of the
\* pool or in the opposite order
FieldLists(n) ==
    UNION {{[i \in 1..k |-> FieldPool[ix[i]]] :
                ix \in {s \in [1..k -> 1..Len(FieldPool)] :
                          \/ \A i \in 1..(k - 1) : s[i] < s[i + 1]
                          \/ \A i \in 1..(k - 1) : s[i] > s[i + 1]}} :
           k \in 0..n}

PointSchema ==
    Schema("Point", "", Num(RUNTIME_GENERATED_ID),
           <<Field("x", "UInt32", "basic", FALSE, FALSE, Undefined, FALSE)>>,
           FALSE, FALSE, FALSE, FALSE)

BaseSchema ==
    Schema("Base", "", Undefined,
           <<Field("serial", "UInt32", "basic", FALSE, FALSE, Undefined, FALSE)>>,
           FALSE, FALSE, FALSE, FALSE)

MidSchema ==
    Schema("Mid", "Base", Undefined,
           <<Field("kind", "Color", "enumeration", FALSE, TRUE, Str("GREEN"), FALSE)>>,
           TRUE, FALSE, FALSE, FALSE)

\* the schemas under test: every field list without hooks, and every
\* combination of hooks and ids over one field list
TSchemas ==
    {Schema("T", b, Num(100), l, FALSE, FALSE, FALSE, FALSE) :
        <<b, l>> \in {"", "Mid"} \X (FieldLists(MaxFields) \cup SpecialLists)}
    \cup
    {Schema("T", "Mid", id,
            <<Field("count", "UInt32", "basic", FALSE, FALSE, Undefined, FALSE),
              Field("point", "Point", "complex", FALSE, FALSE, Undefined, FALSE)>>,
            h[1], h[2], h[3], h[4]) :
        <<id, h>> \in {Undefined, Num(RUNTIME_GENERATED_ID), Num(100)}
                      \X (BOOLEAN \X BOOLEAN \X BOOLEAN \X BOOLEAN)}

TypeNames == {"Point", "Base", "Mid", "T"}

-----------------------------------------------------------------------------
(* The generated text, as statements *)

Stmt(s, member, i, ftype) == [s |-> s, member |-> member, i |-> i, ftype |-> ftype]

RECURSIVE Flatten(_)
Flatten(ss) == IF ss = <<>> THEN <<>> ELSE Head(ss) \o Flatten(Tail(ss))

\* the accessor pair and the hidden slot defined for an enumeration field
write_enumeration_define(schema, field, member, i) ==
    [member |-> member, enum |-> field.fieldType]

\* self.<member> = initialize_field(schema.fields[i], options.<name>)
write_enumeration(schema, field, member, i) ==
    <<Stmt("initialize_field", member, i, field.fieldType)>>

\* a constructor text that leaves only a field of the schema's own type
\* absent
write_complex_self_only(schema, field, member) ==
    IF field.isArray
    THEN <<IF field.hasDefault
           THEN Stmt("assign_null", member, 0, field.fieldType)
           ELSE Stmt("assign_empty_array", member, 0, field.fieldType),
           Stmt("map_if_supplied", member, 0, field.fieldType)>>
    ELSE IF field.fieldType = schema.name
         THEN <<Stmt("new_or_null", member, 0, field.fieldType)>>
         ELSE <<Stmt("new", member, 0, field.fieldType)>>

write_complex(schema, field, member) ==
    IF field.isArray
    THEN <<IF field.hasDefault
           THEN Stmt("assign_null", member, 0, field.fieldType)
           ELSE Stmt("assign_empty_array", member, 0, field.fieldType),
           Stmt("map_if_supplied", member, 0, field.fieldType)>>
    ELSE IF (field.hasDefault /\ field.defaultValue.k = "null")
            \/ field.fieldType = schema.name
         THEN <<Stmt("new_or_null", member, 0, field.fieldType)>>
         ELSE <<Stmt("new", member, 0, field.fieldType)>>

write_basic(schema, field, member, i) ==
    IF field.isArray
    THEN <<Stmt("initialize_field_array", member, i, field.fieldType)>>
    ELSE <<Stmt("initialize_field", member, i, field.fieldType)>>

\* the statements of the constructor body for field number i (from 0)
write_field(schema, i) ==
    LET field == schema.fields[i + 1]
        member == field.name
    IN CASE field.category = "enumeration" -> write_enumeration(schema, field, member, i)
         [] field.category = "complex" -> write_complex(schema, field, member)
         [] OTHER -> write_basic(schema, field, member, i)

\* a constructor that applies the hook after the base constructor ran
ConstructorCode_hook_late(schema, baseclass) ==
    <<Stmt("options_default", "", 0, ""), Stmt("debug_check", "", 0, "")>>
    \o (IF baseclass # "" THEN <<Stmt("base_call", "", 0, baseclass)>> ELSE <<>>)
    \o (IF schema.construct_hook THEN <<Stmt("construct_hook", "", 0, "")>> ELSE <<>>)
    \o Flatten([i \in 1..Len(schema.fields) |-> write_field(schema, i - 1)])

\* function <classname>(options) { ... }
ConstructorCode(schema, baseclass) ==
    <<Stmt("options_default", "", 0, ""), Stmt("debug_check", "", 0, "")>>
    \o (IF schema.construct_hook THEN <<Stmt("construct_hook", "", 0, "")>> ELSE <<>>)
    \o (IF baseclass # "" THEN <<Stmt("base_call", "", 0, baseclass)>> ELSE <<>>)
    \o Flatten([i \in 1..Len(schema.fields) |-> write_field(schema, i - 1)])

\* a resolution that falls back to an id of its own where the schema and
\* the catalog have none
encoding_BinaryId_defaulted(schema) ==
    IF schema.id.k # "undefined" THEN schema.id
    ELSE IF objectNodeIds(schema.name).k # "undefined" THEN objectNodeIds(schema.name)
    ELSE Num(1)

\* the id of the binary encoding: schema.id, or else the node-id catalog
encoding_BinaryId(schema) ==
    IF schema.id.k = "undefined" THEN objectNodeIds(schema.name) ELSE schema.id

encodingBinaryNodeId(id) ==
    IF id.v = RUNTIME_GENERATED_ID THEN id ELSE makeExpandedNodeId(id.v)

\* a text that writes the id it is given, the sentinel included
EncodingDefaultBinaryCode_literal(nodeId) ==
    IF "k" \in DOMAIN nodeId
    THEN [s |-> "fixed", value |-> nodeId.v, namespace |-> 0]
    ELSE [s |-> "fixed", value |-> nodeId.value, namespace |-> nodeId.namespace]

\* <classname>.prototype.encodingDefaultBinary = ...
EncodingDefaultBinaryCode(nodeId) ==
    IF "k" \in DOMAIN nodeId /\ nodeId.v = RUNTIME_GENERATED_ID
    THEN [s |-> "generate_new_id", value |-> 0, namespace |-> 0]
    ELSE [s |-> "fixed", value |-> nodeId.value, namespace |-> nodeId.namespace]

\* the statement of <classname>.prototype.encode for field number i
EncodeField(schema, i) ==
    LET field == schema.fields[i + 1]
        member == field.name
    IN IF field.category = "enumeration" \/ field.category = "basic"
       THEN IF field.isArray
            THEN <<Stmt("encodeArray", member, i, field.fieldType)>>
            ELSE <<Stmt("encode_type", member, i, field.fieldType)>>
       ELSE IF field.category = "complex"
            THEN IF field.isArray
                 THEN <<Stmt("encodeArray_complex", member, i, field.fieldType)>>
                 ELSE <<Stmt("member_encode", member, i, field.fieldType)>>
            ELSE <<>>

\* an encode that writes the fields before it runs the base encode
EncodeCode_base_last(schema, baseclass) ==
    IF schema.encode
    THEN <<Stmt("schema_encode", "", 0, "")>>
    ELSE Flatten([i \in 1..Len(schema.fields) |-> EncodeField(schema, i - 1)])
         \o <<Stmt("base_encode", "", 0, baseclass)>>

EncodeCode(schema, baseclass) ==
    IF schema.encode
    THEN <<Stmt("schema_encode", "", 0, "")>>
    ELSE <<Stmt("base_encode", "", 0, baseclass)>>
         \o Flatten([i \in 1..Len(schema.fields) |-> EncodeField(schema, i - 1)])

\* `var is_complex_type` of produce_code is declared and never assigned
is_complex_type == FALSE

\* the statement of <classname>.prototype.decode for field number i
DecodeField(schema, i) ==
    LET field == schema.fields[i + 1]
        member == field.name
    IN IF field.category = "enumeration" \/ field.category = "basic"
       THEN IF field.isArray
            THEN <<Stmt("decodeArray", member, i, field.fieldType)>>
            ELSE IF is_complex_type
                 THEN <<Stmt("member_decode", member, i, field.fieldType)>>
                 ELSE IF field.hasDecode
                      THEN <<Stmt("field_decode", member, i, field.fieldType)>>
                      ELSE <<Stmt("decode_type", member, i, field.fieldType)>>
       ELSE IF field.isArray
            THEN <<Stmt("decodeArray_complex", member, i, field.fieldType)>>
            ELSE <<Stmt("member_decode", member, i, field.fieldType)>>

\* a decode that reads the fields before it runs the base decode
DecodeCode_base_last(schema, baseclass) ==
    IF schema.decode
    THEN <<Stmt("schema_decode", "", 0, "")>>
    ELSE Flatten([i \in 1..Len(schema.fields) |-> DecodeField(schema, i - 1)])
         \o <<Stmt("base_decode", "", 0, baseclass)>>

DecodeCode(schema, baseclass) ==
    IF schema.decode
    THEN <<Stmt("schema_decode", "", 0, "")>>
    ELSE <<Stmt("base_decode", "", 0, baseclass)>>
         \o Flatten([i \in 1..Len(schema.fields) |-> DecodeField(schema, i - 1)])

\* the types whose generated file the text requires: the other complex
\* types of the fields, and the base class
RequiredTypes(schema, baseclass) ==
    {schema.fields[i].fieldType : i \in
        {j \in 1..Len(schema.fields) :
            /\ schema.fields[j].category = "complex"
            /\ schema.fields[j].fieldType # schema.name}}
    \cup (IF baseclass # ROOT THEN {baseclass} ELSE {})

Thrown(msg) == [ok |-> FALSE, error |-> msg]

\* a generator that writes the custom decode without asking for decode_debug
produce_code_without_decode_debug(schema, known) ==
    LET id == encoding_BinaryId(schema)
        baseclass == IF schema.baseType # "" THEN schema.baseType ELSE ROOT
    IN IF ~Truthy(id)
       THEN Thrown("has no _Encoding_DefaultBinary id")
       ELSE IF ~(RequiredTypes(schema, baseclass) \subseteq known)
       THEN Thrown("getFactory: class not registered")
       ELSE IF \E i \in 1..Len(schema.fields) :
                    schema.fields[i].category = "enumeration" /\ schema.fields[i].isArray
       THEN Thrown("assert(!field.isArray)")
       ELSE [ok |-> TRUE,
             name |-> schema.name,
             baseclass |-> baseclass,
             enum_properties |->
                {write_enumeration_define(schema, schema.fields[i], schema.fields[i].name, i - 1) :
                    i \in {j \in 1..Len(schema.fields) :
                              schema.fields[j].category = "enumeration"}},
             ctor |-> ConstructorCode(schema, baseclass),
             id |-> EncodingDefaultBinaryCode(encodingBinaryNodeId(id)),
             encode |-> EncodeCode(schema, baseclass),
             decode |-> DecodeCode(schema, baseclass),
             decode_debug |-> schema.decode]

\* produce_code: the text saved for the schema, or the error thrown before
\* anything is saved.  `known` are the registered classes (getFactory).
produce_code(schema, known) ==
    LET id == encoding_BinaryId(schema)
        baseclass == IF schema.baseType # "" THEN schema.baseType ELSE ROOT
    IN IF ~Truthy(id)
       THEN Thrown("has no _Encoding_DefaultBinary id")
       ELSE IF ~(RequiredTypes(schema, baseclass) \subseteq known)
       THEN Thrown("getFactory: class not registered")
       ELSE IF \E i \in 1..Len(schema.fields) :
                    schema.fields[i].category = "enumeration" /\ schema.fields[i].isArray
       THEN Thrown("assert(!field.isArray)")
       ELSE IF schema.decode /\ ~schema.decode_debug
       THEN Thrown("schema decode requires also to provide a decode_debug")
       ELSE [ok |-> TRUE,
             name |-> schema.name,
             baseclass |-> baseclass,
             enum_properties |->
                {write_enumeration_define(schema, schema.fields[i], schema.fields[i].name, i - 1) :
                    i \in {j \in 1..Len(schema.fields) :
                              schema.fields[j].category = "enumeration"}},
             ctor |-> ConstructorCode(schema, baseclass),
             id |-> EncodingDefaultBinaryCode(encodingBinaryNodeId(id)),
             encode |-> EncodeCode(schema, baseclass),
             decode |-> DecodeCode(schema, baseclass),
             decode_debug |-> schema.decode]

-----------------------------------------------------------------------------
(* Running a generated constructor *)

NoSchema == Schema("", "", Undefined, <<>>, FALSE, FALSE, FALSE, FALSE)
NoFile == [ok |-> FALSE]
NoClass == [ok |-> FALSE]
NoObject == Null

Ev(ev, type, member, o, arg) ==
    [ev |-> ev, type |-> type, member |-> member, o |-> o, arg |-> arg]

RECURSIVE ClassChain(_)
\* the class and its base classes, the class first
ClassChain(t) ==
    IF t = ROOT \/ ~classes[t].ok THEN <<>>
    ELSE <<t>> \o ClassChain(classes[t].baseclass)

\* the enumeration accessors an instance of class t finds on its prototypes
EnumProperties(t) ==
    UNION {classes[ClassChain(t)[i]].enum_properties : i \in 1..Len(ClassChain(t))}

IsEnumProperty(t, member) == \E p \in EnumProperties(t) : p.member = member

EnumOf(t, member) == (CHOOSE p \in EnumProperties(t) : p.member = member).enum

\* a new object of class t before its constructor runs: the hidden slot of
\* an enumeration accessor reads 'aaaa' from the prototype.  f[member] of an
\* enumeration field stands for the slot $member.
BlankFields(t) ==
    [n \in FieldNames |-> IF IsEnumProperty(t, n) THEN Str("aaaa") ELSE Undefined]

\* a set accessor that stores whatever the lookup returns
EnumSetter_unchecked(e, f, member, value) ==
    [ok |-> TRUE, f |-> [f EXCEPT ![member] = typedEnumGet(e, value)]]

\* the set accessor of an enumeration property
EnumSetter(e, f, member, value) ==
    LET coercedValue == typedEnumGet(e, value)
    IN IF IsNullish(coercedValue)
       THEN [ok |-> FALSE, f |-> f]
       ELSE [ok |-> TRUE, f |-> [f EXCEPT ![member] = coercedValue]]

\* this.<member> = value on an instance of class it
Assign(it, f, member, value) ==
    IF IsEnumProperty(it, member)
    THEN EnumSetter(EnumOf(it, member), f, member, value)
    ELSE [ok |-> TRUE, f |-> [f EXCEPT ![member] = value]]

\* schema.construct_hook(options) of the schemas of the model
construct_hook(t, options) ==
    IF t = "Mid"
    THEN Obj([options.v EXCEPT !["serial"] = Num(9)])
    ELSE Obj([options.v EXCEPT !["kind"] = Str("RED")])

RECURSIVE AllFields(_)
\* extract_all_fields: the fields of the base types, then the type's own
AllFields(t) ==
    IF t = ROOT \/ t = "" THEN <<>>
    ELSE AllFields(schemas[t].baseType) \o schemas[t].fields

\* check_options_correctness_against_schema(this, schema, options): every
\* property the options carry names a field of the instance's type
check_options_correctness_against_schema(it, options) ==
    \A n \in FieldNames :
        Get(options, n) # Undefined =>
            \E i \in 1..Len(AllFields(it)) : AllFields(it)[i].name = n

RECURSIVE CtorCall(_, _, _, _, _)
RECURSIVE ExecCtor(_, _, _, _, _, _)
RECURSIVE New(_, _, _)
RECURSIVE MapNew(_, _, _, _, _)

\* the constructor state after this.<member> = value
Touch(st, it, ev, member, value) ==
    LET a == Assign(it, st.f, member, value)
    IN [st EXCEPT !.ok = a.ok, !.f = a.f, !.trace = Append(@, ev)]

\* the constructor state after this.<member> = r.value, where r is the
\* outcome of the nested constructor calls that computed the value
TouchNested(st, it, ev, member, r) ==
    IF r.ok
    THEN LET a == Assign(it, st.f, member, r.value)
         IN [st EXCEPT !.ok = a.ok, !.f = a.f, !.trace = Append(@, ev) \o r.trace]
    ELSE [st EXCEPT !.ok = FALSE, !.trace = Append(@, ev) \o r.trace]

\* the constructor state after the base constructor ran on this
AfterBase(st, ev, r) ==
    [st EXCEPT !.ok = r.ok, !.f = r.f, !.trace = Append(@, ev) \o r.trace]

\* one statement of the constructor of class t, run on an instance of
\* class it that is o levels below the instance under construction
StepCtor(t, it, s, st, o) ==
    LET opt == Get(st.options, s.member)
        ev == Ev(s.s, t, s.member, o, Undefined)
    IN CASE s.s = "options_default" ->
              [st EXCEPT !.options = IF Truthy(@) THEN @ ELSE Obj(NoProps)]
         [] s.s = "debug_check" ->
              IF doDebug
              THEN [st EXCEPT !.ok = check_options_correctness_against_schema(it, st.options),
                              !.trace = Append(@, Ev(s.s, t, "", o, st.options))]
              ELSE st
         [] s.s = "construct_hook" ->
              [st EXCEPT !.options = construct_hook(t, @),
                         !.trace = Append(@, Ev(s.s, t, "", o, construct_hook(t, st.options)))]
         [] s.s = "base_call" ->
              AfterBase(st, Ev(s.s, t, "", o, st.options),
                        CtorCall(s.ftype, it, st.f, st.options, o))
         [] s.s = "initialize_field" ->
              Touch(st, it, ev, s.member,
                    initialize_field(schemas[t].fields[s.i + 1], opt))
         [] s.s = "initialize_field_array" ->
              Touch(st, it, ev, s.member,
                    initialize_field_array(schemas[t].fields[s.i + 1], opt))
         [] s.s = "assign_null" -> Touch(st, it, ev, s.member, Null)
         [] s.s = "assign_empty_array" -> Touch(st, it, ev, s.member, Arr(<<>>))
         [] s.s = "map_if_supplied" ->
              IF ~Truthy(opt) THEN [st EXCEPT !.trace = Append(@, ev)]
              ELSE IF opt.k # "array"
              THEN [st EXCEPT !.ok = FALSE, !.trace = Append(@, ev)]
              ELSE TouchNested(st, it, ev, s.member,
                               MapNew(s.ftype, opt.v, 1,
                                      [ok |-> TRUE, value |-> Arr(<<>>), trace |-> <<>>],
                                      o + 1))
         [] s.s \in {"new_or_null", "new"} ->
              IF s.s = "new_or_null" /\ ~Truthy(opt)
              THEN Touch(st, it, ev, s.member, Null)
              ELSE TouchNested(st, it, ev, s.member, New(s.ftype, opt, o + 1))

\* statements k.. of the constructor, until one throws
ExecCtor(t, it, code, k, st, o) ==
    IF k > Len(code) \/ ~st.ok THEN st
    ELSE ExecCtor(t, it, code, k + 1, StepCtor(t, it, code[k], st, o), o)

\* <t>.call(this, options)
CtorCall(t, it, f, options, o) ==
    IF t = ROOT
    THEN [ok |-> TRUE, f |-> f, options |-> options, trace |-> <<>>]
    ELSE ExecCtor(t, it, classes[t].ctor, 1,
                  [ok |-> TRUE, f |-> f, options |-> options, trace |-> <<>>], o)

\* the instance a constructor call r leaves behind
AsInstance(t, r) == [ok |-> r.ok, value |-> Inst(t, r.f), trace |-> r.trace]

\* new <t>(options)
New(t, options, o) == AsInstance(t, CtorCall(t, t, BlankFields(t), options, o))

\* the mapped array with one more element
Mapped(acc, r) ==
    [ok |-> r.ok, value |-> Arr(Append(acc.value.v, r.value)),
     trace |-> acc.trace \o r.trace]

\* options.<member>.map(function(e){ return new <t>(e); })
MapNew(t, elems, k, acc, o) ==
    IF k > Len(elems) \/ ~acc.ok THEN acc
    ELSE MapNew(t, elems, k + 1, Mapped(acc, New(t, elems[k], o)), o)

-----------------------------------------------------------------------------
(* Running a generated encode *)

\* the word a schema-supplied encode writes in the model
HookWord == 77

\* encode_<fieldType>(value, stream): an enumeration member is written as
\* its ordinal, a number as itself
EncodeValue(value) ==
    CASE value.k = "enumitem" -> value.value
      [] value.k = "number" -> value.v
      [] OTHER -> 0

RECURSIVE EncodeCall(_, _, _, _)
RECURSIVE ExecEncode(_, _, _, _, _, _)
RECURSIVE EncodeElements(_, _, _, _)

\* ec.encodeArray(arr, stream, encode_<fieldType>): the count (-1 for
\* null), then the elements
encodeArray(arr, st) ==
    IF IsNullish(arr)
    THEN [st EXCEPT !.stream = Append(@, -1)]
    ELSE [st EXCEPT !.stream = Append(@, Len(arr.v))
                        \o [j \in 1..Len(arr.v) |-> EncodeValue(arr.v[j])]]

\* one statement of <t>.prototype.encode, run on this
StepEncode(t, this, s, st, o) ==
    LET m == Get(this, s.member)
        logged == [st EXCEPT !.trace = Append(@, Ev(s.s, t, s.member, o, s.ftype))]
    IN CASE s.s = "schema_encode" -> [logged EXCEPT !.stream = Append(@, HookWord)]
         [] s.s = "base_encode" -> EncodeCall(s.ftype, this, logged, o)
         [] s.s = "encode_type" -> [logged EXCEPT !.stream = Append(@, EncodeValue(m))]
         [] s.s = "encodeArray" -> encodeArray(m, logged)
         [] s.s = "encodeArray_complex" ->
              IF IsNullish(m)
              THEN [logged EXCEPT !.stream = Append(@, -1)]
              ELSE EncodeElements(m.v, 1, [logged EXCEPT !.stream = Append(@, Len(m.v))], o + 1)
         [] s.s = "member_encode" ->
              IF IsNullish(m)
              THEN [logged EXCEPT !.ok = FALSE, !.error = "TypeError"]
              ELSE EncodeCall(m.type, m, logged, o + 1)

ExecEncode(t, this, code, k, st, o) ==
    IF k > Len(code) \/ ~st.ok THEN st
    ELSE ExecEncode(t, this, code, k + 1, StepEncode(t, this, code[k], st, o), o)

\* <t>.prototype.encode.call(this, stream, options)
EncodeCall(t, this, st, o) ==
    IF t = ROOT THEN st
    ELSE ExecEncode(t, this, classes[t].encode, 1, st, o)

\* function(obj, stream){ obj.encode(stream, options); } over the elements
EncodeElements(elems, k, st, o) ==
    IF k > Len(elems) \/ ~st.ok THEN st
    ELSE EncodeElements(elems, k + 1, EncodeCall(elems[k].type, elems[k], st, o), o)

-----------------------------------------------------------------------------
(* Running a generated decode *)

RECURSIVE DecodeCall(_, _, _, _)
RECURSIVE ExecDecode(_, _, _, _, _, _)
RECURSIVE DecodeElements(_, _, _, _)
RECURSIVE DecodeValues(_, _)

\* decode_<fieldType>(stream): the next word as a value of the type, taken
\* from _enumerations for an enumeration and from _defaultTypeMap otherwise
DecodeValue(ftype, word) ==
    IF Members(ftype) # {} THEN typedEnumGet(ftype, Num(word)) ELSE Num(word)

\* the decode state after reading one word: reading past the end throws
Read(st) ==
    IF st.pos > Len(st.stream)
    THEN [st EXCEPT !.ok = FALSE, !.word = 0, !.error = "RangeError"]
    ELSE [st EXCEPT !.word = st.stream[st.pos], !.pos = @ + 1]

\* the decode state with the word just read added to the values
Collected(r) == [r EXCEPT !.vals = Append(@, Num(r.word))]

\* n more values read by decode_<fieldType>
DecodeValues(n, st) ==
    IF n <= 0 \/ ~st.ok THEN st
    ELSE DecodeValues(n - 1, Collected(Read(st)))

\* this.<member> = value, inside decode
Store(it, st, member, value) ==
    LET a == Assign(it, st.f, member, value)
    IN [st EXCEPT !.ok = @ /\ a.ok, !.f = a.f,
                  !.error = IF a.ok THEN @ ELSE "Error"]

\* this.<member> = the word just read, as a value of the type
StoreWord(it, r, member, ftype) ==
    IF r.ok THEN Store(it, r, member, DecodeValue(ftype, r.word)) ELSE r

\* this.<member> = the array just read
StoreArray(it, d, member) ==
    IF d.ok THEN Store(it, d, member, Arr(d.vals)) ELSE d

\* the decode state of this after its member was filled by d
StoreMember(st, member, mtype, d) ==
    [d EXCEPT !.f = [st.f EXCEPT ![member] = Inst(mtype, d.f)]]

\* the decode state of the array after the element was filled by d
StoreElement(t, st, d) ==
    [d EXCEPT !.f = st.f, !.vals = Append(st.vals, Inst(t, d.f))]

\* one statement of <t>.prototype.decode, run on an instance of class it
StepDecode(t, it, s, st, o) ==
    LET m == st.f[s.member]
        logged == [st EXCEPT !.trace = Append(@, Ev(s.s, t, s.member, o, s.ftype))]
        r == Read(logged)
    IN CASE s.s = "schema_decode" -> r
         [] s.s = "base_decode" -> DecodeCall(s.ftype, it, logged, o)
         [] s.s \in {"decode_type", "field_decode"} ->
              StoreWord(it, r, s.member, s.ftype)
         [] s.s = "decodeArray" ->
              IF ~r.ok THEN r
              ELSE IF r.word = -1 THEN Store(it, r, s.member, Null)
              ELSE StoreArray(it, DecodeValues(r.word, [r EXCEPT !.vals = <<>>]), s.member)
         [] s.s = "decodeArray_complex" ->
              IF ~r.ok THEN r
              ELSE IF r.word = -1 THEN Store(it, r, s.member, Null)
              ELSE StoreArray(it, DecodeElements(s.ftype, r.word,
                                                 [r EXCEPT !.vals = <<>>], o + 1),
                              s.member)
         [] s.s = "member_decode" ->
              IF IsNullish(m)
              THEN [logged EXCEPT !.ok = FALSE, !.error = "TypeError"]
              ELSE StoreMember(st, s.member, m.type,
                               DecodeCall(m.type, m.type, [logged EXCEPT !.f = m.f], o + 1))

ExecDecode(t, it, code, k, st, o) ==
    IF k > Len(code) \/ ~st.ok THEN st
    ELSE ExecDecode(t, it, code, k + 1, StepDecode(t, it, code[k], st, o), o)

\* <t>.prototype.decode.call(this, stream, options)
DecodeCall(t, it, st, o) ==
    IF t = ROOT THEN st
    ELSE ExecDecode(t, it, classes[t].decode, 1, st, o)

\* obj.decode(stream, options) on the new instance
DecodeNew(t, st, fresh, o) ==
    DecodeCall(t, t, [st EXCEPT !.f = fresh.value.f, !.ok = @ /\ fresh.ok,
                                !.error = IF fresh.ok THEN @ ELSE "Error"], o)

\* var obj = new <t>(); obj.decode(stream, options); return obj;  n times
DecodeElements(t, n, st, o) ==
    IF n <= 0 \/ ~st.ok THEN st
    ELSE DecodeElements(t, n - 1,
                        StoreElement(t, st, DecodeNew(t, st, New(t, Undefined, o), o)), o)

-----------------------------------------------------------------------------
(* The state machine *)

\* the value of _next_available_id when the process starts
FirstId == 1000

\* generate_new_id: the next value of the process-wide counter
generate_new_id(counter) == counter + 1

PointOptions(x) == Obj([NoProps EXCEPT !["x"] = Num(x)])

\* the values the model supplies as option for a field; none for serial,
\* which the construct_hook of Mid replaces
OptionValues(field) ==
    CASE field.name = "serial" ->
            {Undefined}
      [] field.category = "complex" /\ field.isArray ->
            {Undefined, Arr([j \in 1..MaxLen |-> PointOptions(j)]), Num(5), Num(0)}
      [] field.category = "complex" /\ field.fieldType = "T" ->
            {Undefined, Obj(NoProps)}
      [] field.category = "complex" ->
            {Undefined, PointOptions(5), Num(0)}
      [] field.category = "enumeration" ->
            {Undefined, Num(2), Str("PURPLE")}
      [] field.isArray ->
            {Undefined, Arr([j \in 1..MaxLen |-> Num(j)])}
      [] OTHER ->
            {Undefined, Num(7)}

RECURSIVE OptionMaps(_, _)
\* the property maps that give fields k.. of the list one of their values
OptionMaps(fields, k) ==
    IF k > Len(fields) THEN {NoProps}
    ELSE {[m EXCEPT ![fields[k].name] = v] :
            <<m, v>> \in OptionMaps(fields, k + 1) \X OptionValues(fields[k])}

\* the options the model passes to new <t>(options): none at all, or an
\* object
OptionsFor(t) ==
    {IF m = NoProps THEN Undefined ELSE Obj(m) : m \in OptionMaps(AllFields(t), 1)}

\* options with a property that is no field of the schema under test
StrayOptions == Obj([NoProps EXCEPT !["x"] = Num(1)])

\* the raw values the model assigns to an enumeration property
RawValues ==
    {Str("RED"), Num(2), EnumItem("Color", "GREEN", 2), Str("PURPLE"), Num(7)}

\* no Subscription has been constructed
NoSubscription == [timerId |-> 0]

\* what an observer of a Subscription keeps count of, before one exists:
\*   closedAt   the number of events emitted when terminate() first ran, or -1
\*   sincePing  the ticks run since the creation or the last ping_from_client
\*   emptyRun   the consecutive ticks that found no notification available
\*              and did not expire the Subscription, since the creation or
\*              the last notification or keepalive
\*   fresh      no notification and no keepalive has been emitted yet
\*   added      the sequence numbers handed to addNotificationMessage, in order
\*   removed    the notifications acknowledged or discarded
\*   discarded  the notifications discardOldSentNotifications removed, each
\*              with the ticks it had spent in the sent queue
\*   entered    the notifications that entered the sent queue, each with the
\*              tick current at that time
\*   calls      the calls a caller has made itself, outside a tick, of the
\*              methods _tick is built from
\*   tick       what the latest tick found and did
NothingSeen ==
    [created |-> FALSE, closedAt |-> -1, sincePing |-> 0, emptyRun |-> 0,
     fresh |-> TRUE, added |-> <<>>, removed |-> 0, discarded |-> {},
     entered |-> {}, calls |-> 0, tick |-> [n |-> 0]]

Init ==
    /\ schemas = [n \in TypeNames |->
                        CASE n = "Point" -> PointSchema
                          [] n = "Base" -> BaseSchema
                          [] n = "Mid" -> MidSchema
                          [] OTHER -> NoSchema]
    /\ outcome = [n \in TypeNames |-> "none"]
    /\ files = [n \in TypeNames |-> NoFile]
    /\ classes = [n \in TypeNames |-> NoClass]
    /\ registered = {}
    /\ next_available_id = FirstId
    /\ idLog = <<>>
    /\ encodingDefaultBinary = [n \in TypeNames |-> Undefined]
    /\ obj = NoObject
    /\ stream = <<>>
    /\ decoded = NoObject
    /\ ctorTrace = <<>>
    /\ encodeTrace = <<>>
    /\ decodeTrace = <<>>
    /\ last = [op |-> "none"]
    /\ doDebug = FALSE
    /\ sub = NoSubscription
    /\ immediate = FALSE
    /\ emitted = <<>>
    /\ seen = NothingSeen

\* JavaScript runs one operation to completion at a time; the model also
\* follows one instance at a time, from its construction to its release
Idle == last.op = "none"

\* the schema modules produce_code can be pointed at: the module of a
\* schema is read once (require) and the same object is used from then on
SchemaFiles(n) == IF n = "T" /\ schemas[n] = NoSchema THEN TSchemas ELSE {schemas[n]}

\* produce_code(schema_file, schema_name, source_file).  The schema under
\* test is compiled in a process that has registered the other types.
Compile(n, schema) ==
    LET r == produce_code(schema, registered)
    IN /\ Idle
       /\ n = "T" => (TypeNames \ {"T"}) \subseteq registered
       /\ outcome' = [outcome EXCEPT ![n] = IF r.ok THEN "saved" ELSE "thrown"]
       /\ schemas' = IF Truthy(encoding_BinaryId(schema))
                     THEN [schemas EXCEPT ![n] =
                            [schema EXCEPT !.baseType = IF @ # "" THEN @ ELSE ROOT]]
                     ELSE [schemas EXCEPT ![n] = schema]
       /\ files' = IF r.ok THEN [files EXCEPT ![n] = r] ELSE files
       /\ UNCHANGED <<classes, registered, next_available_id, idLog,
                      encodingDefaultBinary, obj, stream, decoded, ctorTrace,
                      encodeTrace, decodeTrace, last, doDebug>>
       /\ UNCHANGED subVars

\* the first require of the generated file: the statements outside the
\* functions run, once per process
Load(n) ==
    /\ Idle
    /\ files[n].ok
    /\ ~classes[n].ok
    /\ classes' = [classes EXCEPT ![n] = files[n]]
    /\ registered' = registered \cup {n}
    /\ IF files[n].id.s = "generate_new_id"
       THEN LET id == generate_new_id(next_available_id)
            IN /\ next_available_id' = id
               /\ idLog' = Append(idLog, [type |-> n, id |-> id])
               /\ schemas' = [schemas EXCEPT ![n].id = Num(id)]
               /\ encodingDefaultBinary' =
                    [encodingDefaultBinary EXCEPT ![n] = makeExpandedNodeId(id)]
       ELSE /\ encodingDefaultBinary' =
                    [encodingDefaultBinary EXCEPT ![n] =
                        [value |-> files[n].id.value, namespace |-> files[n].id.namespace]]
            /\ UNCHANGED <<next_available_id, idLog, schemas>>
    /\ UNCHANGED <<outcome, files, obj, stream, decoded, ctorTrace,
                   encodeTrace, decodeTrace, last, doDebug>>
    /\ UNCHANGED subVars

\* the schemas for which the model also runs with the debug flag set: the
\* family with the field list count, point
DebugSchemas == {sc \in TSchemas : Len(sc.fields) = 2 /\ sc.fields[1].name = "count"
                                    /\ sc.fields[2].name = "point"}

\* schema_helpers.doDebug = flag, between two uses of an instance
SetDebug(flag) ==
    /\ Idle
    /\ classes["T"].ok
    /\ \E sc \in DebugSchemas : sc.name = schemas["T"].name /\ sc.fields = schemas["T"].fields
    /\ doDebug # flag
    /\ doDebug' = flag
    /\ UNCHANGED <<schemas, outcome, files, classes, registered,
                   next_available_id, idLog, encodingDefaultBinary, obj, stream,
                   decoded, ctorTrace, encodeTrace, decodeTrace, last>>
    /\ UNCHANGED subVars

\* obj = new <t>(options)
Construct(t, options) ==
    /\ Idle
    /\ classes[t].ok
    /\ LET r == New(t, options, 0)
       IN /\ obj' = IF r.ok THEN r.value ELSE NoObject
          /\ ctorTrace' = r.trace
          /\ last' = [op |-> "construct", type |-> t, options |-> options, ok |-> r.ok,
                       debug |-> doDebug]
    /\ UNCHANGED <<schemas, outcome, files, classes, registered,
                   next_available_id, idLog, encodingDefaultBinary, stream,
                   decoded, encodeTrace, decodeTrace, doDebug>>
    /\ UNCHANGED subVars

\* obj.<member> = raw, for an enumeration property; the model assigns to
\* instances built without options
SetEnum(member, raw) ==
    /\ obj # NoObject
    /\ \/ last.op = "construct" /\ last.options = Undefined
       \/ last.op = "set"
    /\ IsEnumProperty(obj.type, member)
    /\ LET r == EnumSetter(EnumOf(obj.type, member), obj.f, member, raw)
       IN /\ obj' = Inst(obj.type, r.f)
          /\ last' = [op |-> "set", member |-> member, raw |-> raw,
                      before |-> obj.f[member], ok |-> r.ok]
    /\ UNCHANGED <<schemas, outcome, files, classes, registered,
                   next_available_id, idLog, encodingDefaultBinary, stream,
                   decoded, ctorTrace, encodeTrace, decodeTrace, doDebug>>
    /\ UNCHANGED subVars

\* obj.encode(stream)
Encode ==
    /\ obj # NoObject
    /\ last.op \in {"construct", "set"}
    /\ LET r == EncodeCall(obj.type, obj,
                           [ok |-> TRUE, error |-> "", stream |-> <<>>, trace |-> <<>>], 0)
       IN /\ stream' = r.stream
          /\ encodeTrace' = r.trace
          /\ last' = [op |-> "encode", ok |-> r.ok, error |-> r.error]
    /\ UNCHANGED <<schemas, outcome, files, classes, registered,
                   next_available_id, idLog, encodingDefaultBinary, obj,
                   decoded, ctorTrace, decodeTrace, doDebug>>
    /\ UNCHANGED subVars

\* target.decode(stream) on the words just encoded, where target is a new
\* instance built without options, or an instance built like obj
Decode(fresh) ==
    /\ last.op = "encode"
    /\ last.ok
    /\ LET target == IF fresh THEN New(obj.type, Undefined, 0).value ELSE obj
           r == DecodeCall(obj.type, obj.type,
                           [ok |-> TRUE, error |-> "", f |-> target.f,
                            stream |-> stream, pos |-> 1, word |-> 0,
                            vals |-> <<>>, trace |-> <<>>], 0)
       IN /\ decoded' = IF r.ok THEN Inst(obj.type, r.f) ELSE NoObject
          /\ decodeTrace' = r.trace
          /\ last' = [op |-> "decode", ok |-> r.ok, error |-> r.error,
                      fresh |-> fresh, target |-> target, read |-> r.pos - 1]
    /\ UNCHANGED <<schemas, outcome, files, classes, registered,
                   next_available_id, idLog, encodingDefaultBinary, obj,
                   stream, ctorTrace, encodeTrace, doDebug>>
    /\ UNCHANGED subVars

\* the instance, its stream and the traces go out of scope
Release ==
    /\ ~Idle
    /\ obj' = NoObject
    /\ stream' = <<>>
    /\ decoded' = NoObject
    /\ ctorTrace' = <<>>
    /\ encodeTrace' = <<>>
    /\ decodeTrace' = <<>>
    /\ last' = [op |-> "none"]
    /\ UNCHANGED <<schemas, outcome, files, classes, registered,
                   next_available_id, idLog, encodingDefaultBinary, doDebug>>
    /\ UNCHANGED subVars

Next ==
    \/ \E n \in TypeNames : \E schema \in SchemaFiles(n) : Compile(n, schema)
    \/ \E n \in TypeNames : Load(n)
    \/ /\ Idle
       /\ classes["T"].ok
       /\ \E options \in OptionsFor("T") \cup {StrayOptions} : Construct("T", options)
    \/ \E flag \in BOOLEAN : SetDebug(flag)
    \/ /\ obj # NoObject
       /\ \E member \in FieldNames : \E raw \in RawValues : SetEnum(member, raw)
    \/ Encode
    \/ \E fresh \in BOOLEAN : Decode(fresh)
    \/ Release

Spec == Init /\ [][Next]_vars

-----------------------------------------------------------------------------
(* The Subscription *)

\* the largest count an option carries, the ticks, the notifications and
\* the direct calls of one behaviour
MaxCount == 2
MaxTicks == 4
MaxNotifications == 3
MaxCalls == 1

DefaultMaxKeepAliveCount == 10
\* the largest sequence number, 4000000000, in millions
MaxSequenceNumberMillions == 4000

\* next > 4000000000
PastMaxSequenceNumber(next) ==
    \/ next \div 1000000 > MaxSequenceNumberMillions
    \/ next \div 1000000 = MaxSequenceNumberMillions /\ next % 1000000 > 0

\* a || b on counts: 0 stands for an option that is absent (or zero)
OrElse(a, b) == IF a = 0 THEN b ELSE a

\* the options given to the constructor
SubscriptionOptions == [maxKeepAliveCount : 0..MaxCount, maxLifeTimeCount : 0..MaxCount]

resetKeepAliveCounter(s) == [s EXCEPT !.keep_alive_counter = 0]

increaseKeepAliveCounter(s) == [s EXCEPT !.keep_alive_counter = @ + 1]

\* a keep-alive count that is passed only when the counter exceeds it
keepAliveCounterHasExpired_late(s) == s.keep_alive_counter > s.maxKeepAliveCount

keepAliveCounterHasExpired(s) == s.keep_alive_counter >= s.maxKeepAliveCount

resetLifeTimeCounter(s) == [s EXCEPT !.life_time_counter = 0]

increaseLifeTimeCounter(s) == [s EXCEPT !.life_time_counter = @ + 1]

lifeTimeHasExpired(s) == s.life_time_counter >= s.maxLifeTimeCount

\* new Subscription(options): the fields; the two callbacks it schedules
\* are the timer (timerId) and the variable immediate
Subscription(options) ==
    LET keep == OrElse(options.maxKeepAliveCount, DefaultMaxKeepAliveCount)
    IN [maxKeepAliveCount |-> keep,
        keep_alive_counter |-> keep,
        maxLifeTimeCount |-> OrElse(options.maxLifeTimeCount, keep),
        life_time_counter |-> 0,
        currentTick |-> 0,
        timerId |-> 1,
        pending_notifications |-> <<>>,
        sent_notifications |-> <<>>,
        next_sequence_number |-> 0]

\* _get_next_sequence_number
get_next_sequence_number(s) ==
    LET next == s.next_sequence_number + 1
        value == IF PastMaxSequenceNumber(next) THEN 1 ELSE next
    IN [sub |-> [s EXCEPT !.next_sequence_number = value], value |-> value]

\* _get_future_sequence_number
get_future_sequence_number(s) ==
    LET next == s.next_sequence_number + 1
    IN IF PastMaxSequenceNumber(next) THEN 1 ELSE next

ping_from_client(s) == resetLifeTimeCounter(s)

\* clearTimeout(timerId); timerId = 0
terminate(s) == [s EXCEPT !.timerId = 0]

addNotificationMessage(s, sequenceNumber) ==
    [s EXCEPT !.pending_notifications =
        Append(@, [start_tick |-> s.currentTick, sequenceNumber |-> sequenceNumber])]

pendingNotificationsCount(s) == Len(s.pending_notifications)

hasPendingNotification(s) == pendingNotificationsCount(s) > 0

sentNotificationsCount(s) == Len(s.sent_notifications)

\* a pop that hands out the first pending notification and leaves it pending
popNotificationToSend_keep(s) ==
    [sub |-> [s EXCEPT !.sent_notifications = Append(@, Head(s.pending_notifications))],
     notification |-> Head(s.pending_notifications)]

popNotificationToSend(s) ==
    [sub |-> [s EXCEPT !.pending_notifications = Tail(@),
                       !.sent_notifications = Append(@, Head(s.pending_notifications))],
     notification |-> Head(s.pending_notifications)]

notificationHasExpired(s, notification) ==
    notification.start_tick + s.maxKeepAliveCount < s.currentTick

\* the index the find callback leaves in foundIndex: the last match, or -1
foundIndex(s, sequenceNumber) ==
    LET matches == {i \in 1..Len(s.sent_notifications) :
                       s.sent_notifications[i].sequenceNumber = sequenceNumber}
    IN IF matches = {} THEN -1
       ELSE CHOOSE i \in matches : \A j \in matches : j <= i

\* splice(foundIndex, 1), or the failed assertion
acknowledgeNotification(s, sequenceNumber) ==
    LET at == foundIndex(s, sequenceNumber)
    IN IF at = -1 THEN [ok |-> FALSE, sub |-> s]
       ELSE [ok |-> TRUE,
             sub |-> [s EXCEPT !.sent_notifications =
                         SubSeq(@, 1, at - 1) \o SubSeq(@, at + 1, Len(@))]]

RECURSIVE acknowledgeEach(_, _)
\* arr.forEach(acknowledgeNotification)
acknowledgeEach(s, arr) ==
    IF arr = <<>> THEN s
    ELSE acknowledgeEach(acknowledgeNotification(s, Head(arr).sequenceNumber).sub, Tail(arr))

discardOldSentNotifications(s) ==
    acknowledgeEach(s, SelectSeq(s.sent_notifications,
                                 LAMBDA notification : notificationHasExpired(s, notification)))

\* self.emit(ev, arg), tagged with the tick that emits it
Emit(ev, arg, s) == [ev |-> ev, arg |-> arg, tick |-> s.currentTick]

\* what a listener of 'perform_update' calls on the Subscription.  emit is
\* a synchronous call, so the listener runs inside _tick, after currentTick
\* has been increased and before the counters and the queues are handled.
\* The listeners of the other events run where _tick has nothing left to do
\* but reset a counter or terminate; their calls have the effect of the same
\* calls made right after the tick.
Listeners == {"none", "addNotificationMessage", "ping_from_client", "terminate"}

\* self.emit("perform_update"): the fields after the listener has run
perform_update(s, listener) ==
    CASE listener = "addNotificationMessage" ->
            addNotificationMessage(get_next_sequence_number(s).sub,
                                   get_next_sequence_number(s).value)
      [] listener = "ping_from_client" -> ping_from_client(s)
      [] listener = "terminate" -> terminate(s)
      [] OTHER -> s

\* _tick: the fields after it, the events it emits, and the fields as the
\* listener of 'perform_update' left them
tick(s, listener) ==
    LET heard == perform_update([s EXCEPT !.currentTick = @ + 1], listener)
        s1 == increaseLifeTimeCounter(heard)
        s2 == discardOldSentNotifications(s1)
        update == <<Emit("perform_update", 0, s1)>>
    IN IF lifeTimeHasExpired(s2)
       THEN [heard |-> heard, sub |-> terminate(s2), events |-> update \o <<Emit("expired", 0, s1)>>]
       ELSE IF hasPendingNotification(s2)
       THEN LET p == popNotificationToSend(s2)
            IN [heard |-> heard, sub |-> resetKeepAliveCounter(p.sub),
                events |-> update \o <<Emit("notification", p.notification.sequenceNumber, s1)>>]
       ELSE LET s3 == increaseKeepAliveCounter(s2)
            IN IF keepAliveCounterHasExpired(s3)
               THEN [heard |-> heard, sub |-> resetKeepAliveCounter(s3),
                     events |-> update \o <<Emit("keepalive", get_future_sequence_number(s3), s1)>>]
               ELSE [heard |-> heard, sub |-> s3, events |-> update]

\* the sequence numbers of a queue
Numbers(queue) == {queue[i].sequenceNumber : i \in 1..Len(queue)}

\* the tick at which the notification entered the sent queue
SentAt(entered, sequenceNumber) ==
    (CHOOSE e \in entered : e.sequenceNumber = sequenceNumber).tick

\* the notifications that left the sent queue between s and t, each with the
\* ticks it had spent there
Discarded(s, t) ==
    {[sequenceNumber |-> e, age |-> t.currentTick - SentAt(seen.entered, e)] :
        e \in {n \in Numbers(s.sent_notifications) : n \notin Numbers(t.sent_notifications)}}

\* the notifications that entered the sent queue between s and t
Entered(s, t) ==
    {[sequenceNumber |-> e, tick |-> t.currentTick] :
        e \in {n \in Numbers(t.sent_notifications) : n \notin Numbers(s.sent_notifications)}}

\* what the observer notes of a tick that took the Subscription from s to
\* r.sub and emitted r.events, with the given listener of 'perform_update'
Observe(s, r, listener) ==
    LET names == {r.events[i].ev : i \in 1..Len(r.events)}
        available == hasPendingNotification(r.heard)
        empty == ~available /\ "expired" \notin names
        run == IF available /\ "expired" \notin names THEN 0
               ELSE IF empty THEN seen.emptyRun + 1 ELSE seen.emptyRun
        pinged == listener = "ping_from_client"
        published == "notification" \in names \/ "keepalive" \in names
        gone == Discarded(s, r.sub)
    IN [seen EXCEPT
            !.closedAt = IF @ = -1 /\ listener = "terminate" THEN Len(emitted) + 1
                         ELSE IF @ = -1 /\ r.sub.timerId = 0
                         THEN Len(emitted) + Len(r.events) ELSE @,
            !.sincePing = IF pinged THEN 1 ELSE @ + 1,
            !.added = IF listener = "addNotificationMessage"
                      THEN Append(@, r.heard.next_sequence_number) ELSE @,
            !.emptyRun = IF published THEN 0 ELSE run,
            !.fresh = @ /\ ~published,
            !.removed = @ + Cardinality(gone),
            !.discarded = @ \cup gone,
            !.entered = @ \cup Entered(s, r.sub),
            !.tick = [n |-> r.sub.currentTick, events |-> names,
                      sincePing |-> IF pinged THEN 1 ELSE seen.sincePing + 1,
                      empty |-> empty,
                      emptyRun |-> run, fresh |-> seen.fresh,
                      closed |-> seen.closedAt # -1]]

\* new Subscription(options)
Create(options) ==
    /\ ~seen.created
    /\ sub' = Subscription(options)
    /\ immediate' = TRUE
    /\ emitted' = <<>>
    /\ seen' = [NothingSeen EXCEPT !.created = TRUE]
    /\ UNCHANGED genVars

\* one run of _tick, from either callback, the listener of 'perform_update'
\* included
RunTick ==
    /\ sub.currentTick < MaxTicks
    /\ \E listener \in Listeners :
          /\ listener = "addNotificationMessage" => Len(seen.added) < MaxNotifications
          /\ LET r == tick(sub, listener)
             IN /\ sub' = r.sub
                /\ emitted' = emitted \o r.events
                /\ seen' = Observe(sub, r, listener)

\* the callback of setInterval runs: the timer has not been cleared.  The
\* callback of setImmediate runs in the first turn of the event loop, so
\* the timer can fire before it at most once.
IntervalTick ==
    /\ seen.created
    /\ sub.timerId # 0
    /\ immediate => sub.currentTick = 0
    /\ RunTick
    /\ UNCHANGED immediate
    /\ UNCHANGED genVars

\* the callback of setImmediate runs: nothing cancels it
ImmediateTick ==
    /\ seen.created
    /\ immediate
    /\ RunTick
    /\ immediate' = FALSE
    /\ UNCHANGED genVars

\* subscription.ping_from_client()
Ping ==
    /\ seen.created
    /\ sub' = ping_from_client(sub)
    /\ seen' = [seen EXCEPT !.sincePing = 0]
    /\ UNCHANGED <<immediate, emitted>>
    /\ UNCHANGED genVars

\* subscription.terminate()
Terminate ==
    /\ seen.created
    /\ sub' = terminate(sub)
    /\ seen' = [seen EXCEPT !.closedAt = IF @ = -1 THEN Len(emitted) ELSE @]
    /\ UNCHANGED <<immediate, emitted>>
    /\ UNCHANGED genVars

\* subscription.addNotificationMessage(new NotificationMessage(
\*     {sequenceNumber: subscription._get_next_sequence_number()}))
AddNotification ==
    /\ seen.created
    /\ Len(seen.added) < MaxNotifications
    /\ LET next == get_next_sequence_number(sub)
       IN /\ sub' = addNotificationMessage(next.sub, next.value)
          /\ seen' = [seen EXCEPT !.added = Append(@, next.value)]
    /\ UNCHANGED <<immediate, emitted>>
    /\ UNCHANGED genVars

\* subscription.acknowledgeNotification(sequenceNumber); the assertion
\* fails, and nothing changes, when no sent notification has the number
Acknowledge(sequenceNumber) ==
    /\ seen.created
    /\ LET r == acknowledgeNotification(sub, sequenceNumber)
       IN /\ sub' = r.sub
          /\ seen' = IF r.ok THEN [seen EXCEPT !.removed = @ + 1] ELSE seen
    /\ UNCHANGED <<immediate, emitted>>
    /\ UNCHANGED genVars

\* the methods _tick is built from; they are methods of the prototype like
\* the others, and a caller can call each of them itself
DirectMethods ==
    {"popNotificationToSend", "discardOldSentNotifications",
     "increaseLifeTimeCounter", "resetLifeTimeCounter",
     "increaseKeepAliveCounter", "resetKeepAliveCounter"}

\* subscription.<method>(), called outside a tick; popNotificationToSend
\* fails its assertion, and changes nothing, when nothing is pending
call(s, method) ==
    CASE method = "popNotificationToSend" ->
            IF pendingNotificationsCount(s) > 0 THEN popNotificationToSend(s).sub ELSE s
      [] method = "discardOldSentNotifications" -> discardOldSentNotifications(s)
      [] method = "increaseLifeTimeCounter" -> increaseLifeTimeCounter(s)
      [] method = "resetLifeTimeCounter" -> resetLifeTimeCounter(s)
      [] method = "increaseKeepAliveCounter" -> increaseKeepAliveCounter(s)
      [] method = "resetKeepAliveCounter" -> resetKeepAliveCounter(s)

Call(method) ==
    /\ seen.created
    /\ seen.calls < MaxCalls
    /\ sub' = call(sub, method)
    /\ seen' = [seen EXCEPT
                   !.calls = @ + 1,
                   !.sincePing = IF method = "resetLifeTimeCounter" THEN 0 ELSE @,
                   !.removed = @ + Cardinality(Discarded(sub, call(sub, method))),
                   !.discarded = @ \cup Discarded(sub, call(sub, method)),
                   !.entered = @ \cup Entered(sub, call(sub, method))]
    /\ UNCHANGED <<immediate, emitted>>
    /\ UNCHANGED genVars

SubNext ==
    \/ \E options \in SubscriptionOptions : Create(options)
    \/ IntervalTick
    \/ ImmediateTick
    \/ Ping
    \/ Terminate
    \/ AddNotification
    \/ \E sequenceNumber \in 1..MaxNotifications : Acknowledge(sequenceNumber)

\* the Subscription, its two callbacks, its listeners and the callers of
\* ping_from_client, terminate, addNotificationMessage and
\* acknowledgeNotification, in every interleaving
SubSpec == Init /\ [][SubNext]_vars

DirectNext ==
    \/ SubNext
    \/ \E method \in DirectMethods : Call(method)

\* the same with callers that also call the methods _tick is built from
DirectSpec == Init /\ [][DirectNext]_vars

-----------------------------------------------------------------------------
(* Properties *)

IsPrefix(a, b) ==
    /\ Len(a) <= Len(b)
    /\ \A i \in 1..Len(a) : a[i] = b[i]

\* the events of the instance the operation was invoked on
TopLevel(trace) == SelectSeq(trace, LAMBDA e : e.o = 0)

\* the schema declares no binary id and the node-id catalog has none
LacksBinaryId(n) ==
    /\ schemas[n] # NoSchema
    /\ schemas[n].id.k = "undefined"
    /\ objectNodeIds(n).k = "undefined"

\* C10: compiling a schema that has neither an explicit binary id nor a
\* catalog entry is rejected, and the rejection leaves no generated file, no
\* loaded class and no registration behind: the registry is what it was.
C10_MissingIdRejected ==
    \A n \in TypeNames :
        LacksBinaryId(n) =>
            /\ outcome[n] = "thrown"
            /\ files[n] = NoFile
            /\ classes[n] = NoClass
            /\ n \notin registered
            /\ encodingDefaultBinary[n] = Undefined

C10_Witness ==
    /\ LacksBinaryId("T")
    /\ outcome["T"] = "thrown"
    /\ ~(schemas["T"].decode /\ ~schemas["T"].decode_debug)
    /\ registered = TypeNames \ {"T"}

\* the draws of the runtime id counter made for type n
Draws(n) == SelectSeq(idLog, LAMBDA d : d.type = n)

\* C9: a type declared with the runtime-generated sentinel draws its id
\* exactly once, when its class is first loaded; the class reports that id
\* and never the sentinel, recompiling the schema afterwards writes the id
\* already drawn and draws nothing, two types never share a drawn id, and a
\* type with a declared id never draws.
C9_RuntimeIdStable ==
    /\ \A n \in TypeNames :
        /\ Len(Draws(n)) <= 1
        /\ classes[n].ok =>
            /\ encodingDefaultBinary[n].value # RUNTIME_GENERATED_ID
            /\ schemas[n].id.k = "number" => schemas[n].id.v # RUNTIME_GENERATED_ID
        /\ Len(Draws(n)) = 1 =>
            /\ classes[n].ok
            /\ classes[n].id.s = "generate_new_id"
            /\ encodingDefaultBinary[n] = makeExpandedNodeId(Draws(n)[1].id)
            /\ schemas[n].id = Num(Draws(n)[1].id)
            /\ files[n].id.s = "fixed" => files[n].id.value = Draws(n)[1].id
        /\ (classes[n].ok /\ classes[n].id.s = "fixed") => Len(Draws(n)) = 0
    /\ \A i, j \in 1..Len(idLog) : i < j => idLog[i].id < idLog[j].id

C9_Witness ==
    /\ Len(Draws("T")) = 1
    /\ Len(Draws("Point")) = 1
    /\ files["T"].id.s = "fixed"
    /\ obj # NoObject
    /\ encodingDefaultBinary["T"].value = Draws("T")[1].id

\* the raw value names a member of the enumeration: by symbolic name, by
\* numeric ordinal, or as the member itself
Names(raw, m) ==
    \/ raw = m
    \/ raw.k = "string" /\ raw.v = m.key
    \/ raw.k = "number" /\ raw.v = m.value

\* C4: the hidden slot of every enumeration property of a constructed or
\* decoded instance holds a member of the enumeration; a set with a raw
\* value that names no member fails and leaves the stored member as it
\* was, and a set that names a member stores exactly that member.
C4_EnumSafety ==
    /\ \A o \in {obj, decoded} \ {NoObject} :
          \A p \in EnumProperties(o.type) : o.f[p.member] \in Members(p.enum)
    /\ last.op = "set" =>
          LET e == EnumOf(obj.type, last.member)
          IN IF \E m \in Members(e) : Names(last.raw, m)
             THEN /\ last.ok
                  /\ Names(last.raw, obj.f[last.member])
                  /\ obj.f[last.member] \in Members(e)
             ELSE /\ ~last.ok
                  /\ obj.f[last.member] = last.before

C4_Witness ==
    /\ last.op = "set"
    /\ last.raw = Str("PURPLE")
    /\ ~last.ok
    /\ last.before = EnumItem("Color", "RED", 1)
    /\ obj.f[last.member] = EnumItem("Color", "RED", 1)
    /\ last.member = "color"

RECURSIVE DeclaredEncodeOrder(_)
\* what the schemas declare an encode of type t to write: the call of the
\* base encode, all that the base type writes, then the fields of t in their
\* declared order
DeclaredEncodeOrder(t) ==
    IF t = ROOT THEN <<>>
    ELSE <<[type |-> t, member |-> ""]>>
         \o DeclaredEncodeOrder(schemas[t].baseType)
         \o [i \in 1..Len(schemas[t].fields) |->
                [type |-> t, member |-> schemas[t].fields[i].name]]

\* the writes of the instance itself, by the class whose encode made them
Written(trace) ==
    [i \in 1..Len(TopLevel(trace)) |->
        [type |-> TopLevel(trace)[i].type, member |-> TopLevel(trace)[i].member]]

\* C2: the generated encode of a schema without a custom encode runs the
\* base encode first and then writes each declared field once, in declared
\* order: what an encode has written is always a prefix of that order (no
\* derived field before the base encode is through, none skipped, repeated
\* or out of order), and all of it once the encode returns.
C2_EncodeOrder ==
    (last.op \in {"encode", "decode"} /\ ~schemas[obj.type].encode) =>
        /\ IsPrefix(Written(encodeTrace), DeclaredEncodeOrder(obj.type))
        /\ (last.op = "decode" \/ last.ok) =>
                Written(encodeTrace) = DeclaredEncodeOrder(obj.type)

C2_Witness ==
    /\ last.op = "encode"
    /\ last.ok
    /\ ~schemas["T"].encode
    /\ schemas["T"].baseType = "Mid"
    /\ Len(schemas["T"].fields) = 2
    /\ schemas["T"].fields[1].name = "items"
    /\ Len(encodeTrace) > Len(TopLevel(encodeTrace))

RECURSIVE Dedup(_)
\* the sequence without the repetitions of an element by its successor
Dedup(s) ==
    IF Len(s) <= 1 THEN s
    ELSE (IF s[1] = s[2] THEN <<>> ELSE <<s[1]>>) \o Dedup(Tail(s))

RECURSIVE DeclaredCtorOrder(_)
\* what the schemas declare a constructor of type t to do: the hook if
\* there is one, the base constructor and all it does, then the fields of t
\* in their declared order
DeclaredCtorOrder(t) ==
    IF t = ROOT THEN <<>>
    ELSE (IF schemas[t].construct_hook
          THEN <<[type |-> t, step |-> "construct_hook"]>> ELSE <<>>)
         \o <<[type |-> t, step |-> "base_call"]>>
         \o DeclaredCtorOrder(schemas[t].baseType)
         \o [i \in 1..Len(schemas[t].fields) |->
                [type |-> t, step |-> schemas[t].fields[i].name]]

\* the steps a constructor took on the instance itself
CtorSteps(trace) ==
    LET steps == SelectSeq(TopLevel(trace), LAMBDA e : e.ev # "debug_check")
    IN Dedup([i \in 1..Len(steps) |->
                [type |-> steps[i].type,
                 step |-> IF steps[i].member = "" THEN steps[i].ev
                          ELSE steps[i].member]])

\* the options with which the hook of type t, if any, leaves them
Hooked(t, options) ==
    IF schemas[t].construct_hook
    THEN construct_hook(t, IF Truthy(options) THEN options ELSE Obj(NoProps))
    ELSE IF Truthy(options) THEN options ELSE Obj(NoProps)

RECURSIVE PassedOn(_, _)
\* the options each class down the chain hands to its base constructor
PassedOn(t, options) ==
    IF t = ROOT THEN <<>>
    ELSE <<[type |-> t, arg |-> Hooked(t, options)]>>
         \o PassedOn(schemas[t].baseType, Hooked(t, options))

\* the options the base constructors were called with
BaseCalls(trace) ==
    LET calls == SelectSeq(TopLevel(trace), LAMBDA e : e.ev = "base_call")
    IN [i \in 1..Len(calls) |-> [type |-> calls[i].type, arg |-> calls[i].arg]]

\* C5: in every construction the hook, if the schema has one, is applied to
\* the options before anything else; the base constructor then runs with
\* the options the hook returned; only after it are the fields of the
\* derived type initialised, one by one in declared order.  A construction
\* that fails has taken a prefix of these steps.
C5_ConstructorOrder ==
    last.op = "construct" =>
        /\ IsPrefix(CtorSteps(ctorTrace), DeclaredCtorOrder(last.type))
        /\ IsPrefix(BaseCalls(ctorTrace), PassedOn(last.type, last.options))
        /\ last.ok =>
            /\ CtorSteps(ctorTrace) = DeclaredCtorOrder(last.type)
            /\ BaseCalls(ctorTrace) = PassedOn(last.type, last.options)

C5_Witness ==
    /\ last.op = "construct"
    /\ last.ok
    /\ schemas["T"].construct_hook
    /\ last.options # Undefined
    /\ obj.f["kind"] = EnumItem("Color", "RED", 1)
    /\ obj.f["serial"] = Num(9)
    /\ obj.f["count"] = Num(7)

\* the schema supplies neither its own encode nor its own decode
NoCodecHooks(t) == ~schemas[t].encode /\ ~schemas[t].decode

\* ... and none of its fields brings its own decode function
Plain(t) ==
    /\ NoCodecHooks(t)
    /\ \A i \in 1..Len(schemas[t].fields) : ~schemas[t].fields[i].hasDecode

\* how a statement of encode or decode frames what it writes or reads
Framing(s) ==
    CASE s \in {"base_encode", "base_decode"} -> "base"
      [] s \in {"encode_type", "decode_type"} -> "scalar"
      [] s \in {"encodeArray", "decodeArray"} -> "array"
      [] s \in {"encodeArray_complex", "decodeArray_complex"} -> "array of instances"
      [] s \in {"member_encode", "member_decode"} -> "instance"
      [] OTHER -> s

\* the statements of a generated method, by framing and field type
Kinds(code) ==
    [i \in 1..Len(code) |->
        [member |-> code[i].member, framing |-> Framing(code[i].s),
         ftype |-> code[i].ftype]]

\* the writes or reads an encode or decode performed, nested ones included
Accesses(trace) ==
    [i \in 1..Len(trace) |->
        [type |-> trace[i].type, member |-> trace[i].member, o |-> trace[i].o,
         framing |-> Framing(trace[i].ev), ftype |-> trace[i].arg]]

\* C3 as stated: for every schema, the reads of the generated decode are
\* in order and kind the writes of the generated encode of the same type.
C3_MirrorEverySchema ==
    /\ \A n \in TypeNames :
          files[n].ok => Kinds(files[n].decode) = Kinds(files[n].encode)
    /\ last.op = "decode" =>
          /\ IsPrefix(Accesses(decodeTrace), Accesses(encodeTrace))
          /\ last.ok => Accesses(decodeTrace) = Accesses(encodeTrace)

\* C3: for every schema that supplies neither its own encode nor its own
\* decode and has no field with its own decode function, the generated
\* decode reads statement by statement what the generated encode writes
\* (base first, then one read per declared field with the same framing and
\* field type); a decode that returns has performed exactly the reads that
\* mirror the writes, and one that stops early a prefix of them.
C3_MirrorPlainSchemas ==
    /\ \A n \in TypeNames :
          (files[n].ok /\ Plain(n)) =>
              Kinds(files[n].decode) = Kinds(files[n].encode)
    /\ (last.op = "decode" /\ Plain(obj.type)) =>
          /\ IsPrefix(Accesses(decodeTrace), Accesses(encodeTrace))
          /\ last.ok => Accesses(decodeTrace) = Accesses(encodeTrace)

C3_Witness ==
    /\ last.op = "decode"
    /\ last.ok
    /\ last.fresh
    /\ Plain("T")
    /\ schemas["T"].baseType = "Mid"
    /\ Len(schemas["T"].fields) = 2
    /\ schemas["T"].fields[1].name = "items"
    /\ schemas["T"].fields[2].name = "color"
    /\ Len(decodeTrace) > Len(TopLevel(decodeTrace))

\* the scalar fields of complex type that schema t declares
ScalarComplex(t) ==
    {i \in 1..Len(schemas[t].fields) :
        schemas[t].fields[i].category = "complex" /\ ~schemas[t].fields[i].isArray}

\* the schema marks the field nullable: its defaultValue is null
Nullable(field) == field.hasDefault /\ field.defaultValue.k = "null"

\* the option the constructor of t finds for the field
OptionOf(t, options, field) == Get(Hooked(t, options), field.name)

\* C7 as stated: a scalar complex field holds a new nested instance built
\* from its option if one is supplied, is left absent if none is supplied
\* and the schema marks it nullable, and holds a zero-value instance, never
\* null, if none is supplied and it is not nullable.
C7_ScalarComplexAsStated ==
    (last.op = "construct" /\ last.ok) =>
        \A i \in ScalarComplex(last.type) :
            LET field == schemas[last.type].fields[i]
                opt == OptionOf(last.type, last.options, field)
            IN IF Truthy(opt)
               THEN obj.f[field.name] = New(field.fieldType, opt, 1).value
               ELSE IF Nullable(field)
               THEN obj.f[field.name] = Null
               ELSE /\ obj.f[field.name] # Null
                    /\ obj.f[field.name] = New(field.fieldType, Undefined, 1).value

\* C7: a scalar complex field holds a new nested instance built from its
\* option if a (truthy) one is supplied; without one it is left absent
\* (null) if the schema marks it nullable or if it is of the schema's own
\* type, and holds a zero-value instance, never null, otherwise.
C7_ScalarComplex ==
    (last.op = "construct" /\ last.ok) =>
        \A i \in ScalarComplex(last.type) :
            LET field == schemas[last.type].fields[i]
                opt == OptionOf(last.type, last.options, field)
            IN IF Truthy(opt)
               THEN obj.f[field.name] = New(field.fieldType, opt, 1).value
               ELSE IF Nullable(field) \/ field.fieldType = last.type
               THEN obj.f[field.name] = Null
               ELSE /\ obj.f[field.name] # Null
                    /\ obj.f[field.name] = New(field.fieldType, Undefined, 1).value

C7_Witness ==
    /\ last.op = "construct"
    /\ last.ok
    /\ Len(schemas["T"].fields) = 2
    /\ schemas["T"].fields[1].name = "extra"
    /\ schemas["T"].fields[2].name = "next"
    /\ obj.f["extra"] = Inst("Point", [BlankFields("Point") EXCEPT !["x"] = Num(5)])
    /\ obj.f["next"] = Null

\* C1: every instance the constructor builds from valid options, options
\* that leave a nullable or self-referential complex field absent
\* included, encodes without error, and decoding the words into a new
\* instance yields an instance equal to it field by field.
C1_RoundTrip ==
    /\ (last.op = "encode" /\ NoCodecHooks(obj.type)) => last.ok
    /\ (last.op = "decode" /\ last.fresh /\ NoCodecHooks(obj.type)) =>
          /\ last.ok
          /\ decoded = obj

\* an instance built without options whose self-referential field was left
\* absent: its encode stops with a TypeError
C1_Witness ==
    /\ last.op = "encode"
    /\ ~last.ok
    /\ last.error = "TypeError"
    /\ NoCodecHooks(obj.type)
    /\ \E i \in ScalarComplex(obj.type) :
          /\ schemas[obj.type].fields[i].fieldType = obj.type
          /\ obj.f[schemas[obj.type].fields[i].name] = Null

\* C6: decode allocates an empty nested instance before it decodes into a
\* complex field, nullable and self-referential fields included: it never
\* decodes into an absent (null) field.
C6_DecodeAllocatesFirst ==
    last.op = "decode" => last.error # "TypeError"

\* a decode into a new instance whose nullable field was left absent stops
\* with a TypeError at that field
C6_Witness ==
    /\ last.op = "decode"
    /\ last.fresh
    /\ last.error = "TypeError"
    /\ \E i \in ScalarComplex(obj.type) :
          /\ Nullable(schemas[obj.type].fields[i])
          /\ last.target.f[schemas[obj.type].fields[i].name] = Null
          /\ obj.f[schemas[obj.type].fields[i].name] # Null

\* the fields of complex type that schema t declares as arrays
ArrayComplex(t) ==
    {i \in 1..Len(schemas[t].fields) :
        schemas[t].fields[i].category = "complex" /\ schemas[t].fields[i].isArray}

\* C8: for an array field of complex type, a supplied sequence yields one
\* new nested instance per element, in order, and a supplied value that is
\* not a sequence always makes the construction fail: no instance results.
C8_ArrayComplex ==
    last.op = "construct" =>
        \A i \in ArrayComplex(last.type) :
            LET field == schemas[last.type].fields[i]
                opt == OptionOf(last.type, last.options, field)
            IN /\ (opt.k = "array" /\ last.ok) =>
                    obj.f[field.name] =
                        Arr([j \in 1..Len(opt.v) |->
                                New(field.fieldType, opt.v[j], 1).value])
               /\ (~IsNullish(opt) /\ opt.k # "array") =>
                    /\ ~last.ok
                    /\ obj = NoObject

\* a construction that was handed the number 0 for the array field and
\* produced an instance with an empty array
C8_Witness ==
    /\ last.op = "construct"
    /\ last.ok
    /\ \E i \in ArrayComplex(last.type) :
          /\ OptionOf(last.type, last.options, schemas[last.type].fields[i]) = Num(0)
          /\ obj.f[schemas[last.type].fields[i].name] = Arr(<<>>)

\* the schema has a binary id, so that nothing but its hooks can make its
\* compilation fail
HasBinaryId(n) == schemas[n] # NoSchema /\ ~LacksBinaryId(n)

\* C11: compiling a schema that declares a custom decode and no
\* decode_debug fails before any instance of the type can be constructed:
\* nothing is saved, no class is loaded or registered, no instance exists.
C11_DecodeNeedsDecodeDebug ==
    \A n \in TypeNames :
        (schemas[n] # NoSchema /\ schemas[n].decode /\ ~schemas[n].decode_debug) =>
            /\ outcome[n] = "thrown"
            /\ files[n] = NoFile
            /\ classes[n] = NoClass
            /\ n \notin registered
            /\ obj = NoObject \/ obj.type # n

C11_Witness ==
    /\ HasBinaryId("T")
    /\ schemas["T"].decode
    /\ ~schemas["T"].decode_debug
    /\ outcome["T"] = "thrown"
    /\ files["T"] = NoFile

\* C12: compiling a schema that supplies a custom encode and no
\* decode_debug fails at compile time: no generated type is saved.
C12_EncodeNeedsDecodeDebug ==
    \A n \in TypeNames :
        (schemas[n] # NoSchema /\ schemas[n].encode /\ ~schemas[n].decode_debug) =>
            /\ outcome[n] = "thrown"
            /\ files[n] = NoFile

\* a schema with a custom encode and no decode_debug was compiled and
\* saved, its class loaded, and an instance of it encoded by the hook
C12_Witness ==
    /\ schemas["T"].encode
    /\ ~schemas["T"].decode
    /\ ~schemas["T"].decode_debug
    /\ outcome["T"] = "saved"
    /\ classes["T"].ok
    /\ last.op = "encode"
    /\ last.ok
    /\ stream = <<HookWord>>

\* the options the constructors validated against their schema
Validated(trace) ==
    LET checks == SelectSeq(TopLevel(trace), LAMBDA e : e.ev = "debug_check")
    IN [i \in 1..Len(checks) |-> [type |-> checks[i].type, arg |-> checks[i].arg]]

\* C13: with the debug mode on, each constructor of the chain validates the
\* final option set, the options as its construct_hook leaves them, before
\* it returns; with the mode off no validation step runs.  A construction
\* that fails has validated a prefix of these option sets.
C13_DebugValidatesFinalOptions ==
    last.op = "construct" =>
        IF last.debug
        THEN /\ IsPrefix(Validated(ctorTrace), PassedOn(last.type, last.options))
             /\ last.ok => Validated(ctorTrace) = PassedOn(last.type, last.options)
        ELSE Validated(ctorTrace) = <<>>

\* a construction in debug mode of a type with a hook: what it validated
\* is the option set it was given, not the one the hook returned
C13_Witness ==
    /\ last.op = "construct"
    /\ last.debug
    /\ last.ok
    /\ schemas["T"].construct_hook
    /\ Len(Validated(ctorTrace)) > 0
    /\ Validated(ctorTrace)[1].arg = last.options
    /\ Validated(ctorTrace)[1].arg # Hooked("T", last.options)

\* C14: the Subscription emits 'expired' and clears its timer on a tick if
\* and only if that tick is the maxLifeTimeCount-th in a row without a
\* ping_from_client (a ping sets the count back to zero); the tick that
\* expires emits no 'notification' and no 'keepalive'.
C14_LifetimeExpiry ==
    (seen.created /\ seen.tick.n > 0) =>
        /\ ("expired" \in seen.tick.events) <=> (seen.tick.sincePing = sub.maxLifeTimeCount)
        /\ ("expired" \in seen.tick.events) =>
              /\ sub.timerId = 0
              /\ "notification" \notin seen.tick.events
              /\ "keepalive" \notin seen.tick.events

\* a tick that ran after the Subscription had expired, and emitted 'expired'
\* again: it is not the maxLifeTimeCount-th tick without a ping
C14_Witness ==
    /\ seen.created
    /\ seen.tick.n > 0
    /\ seen.tick.closed
    /\ "expired" \in seen.tick.events
    /\ seen.tick.sincePing > sub.maxLifeTimeCount

\* the same statement for the ticks that run while the timer is set
C14_LifetimeExpiryWhileOpen ==
    (seen.created /\ seen.tick.n > 0 /\ ~seen.tick.closed) =>
        /\ ("expired" \in seen.tick.events) <=> (seen.tick.sincePing = sub.maxLifeTimeCount)
        /\ ("expired" \in seen.tick.events) =>
              /\ sub.timerId = 0
              /\ "notification" \notin seen.tick.events
              /\ "keepalive" \notin seen.tick.events

\* C15, as stated: a tick emits 'keepalive' exactly when it is the
\* maxKeepAliveCount-th tick in a row that found no notification available
\* (the ticks on which the life time expires set aside, in its favour),
\* counted from the creation or from the last 'notification' or 'keepalive'.
C15_KeepAliveAsStated ==
    (seen.created /\ seen.tick.n > 0) =>
        (("keepalive" \in seen.tick.events) <=>
            (seen.tick.empty /\ seen.tick.emptyRun = sub.maxKeepAliveCount))

\* C15: a tick that does not expire the Subscription emits 'keepalive'
\* exactly when it found no notification available and either it is the
\* maxKeepAliveCount-th such tick in a row since the last 'notification' or
\* 'keepalive', or nothing has been published since the creation (the first
\* such tick emits at once).  A tick on which the life time expires emits
\* 'expired' and no 'keepalive', and is not counted.  The
\* count is that of the ticks: the statement is about a Subscription whose
\* keep-alive counter no caller increases or resets itself (SubSpec).
C15_KeepAlive ==
    (seen.created /\ seen.tick.n > 0) =>
        (("keepalive" \in seen.tick.events) <=>
            (seen.tick.empty /\ (seen.tick.emptyRun = sub.maxKeepAliveCount \/ seen.tick.fresh)))

\* a keepalive counted from an earlier publication, and more than one tick
\* after it
C15_Witness ==
    /\ seen.created
    /\ seen.tick.n > 0
    /\ ~seen.tick.fresh
    /\ "keepalive" \in seen.tick.events
    /\ seen.tick.emptyRun = sub.maxKeepAliveCount
    /\ sub.maxKeepAliveCount > 1

\* C16: discardOldSentNotifications removes no notification that entered
\* the sent queue fewer than maxKeepAliveCount ticks ago.
C16_SentRetention ==
    \A d \in seen.discarded : d.age >= sub.maxKeepAliveCount

\* a notification that waited in the pending queue and was discarded from
\* the sent queue before a keep-alive interval had passed
C16_Witness ==
    /\ Len(seen.added) > 1
    /\ \E d \in seen.discarded : d.age < sub.maxKeepAliveCount

\* the 'notification' events emitted
Notified == SelectSeq(emitted, LAMBDA e : e.ev = "notification")

\* C17: over the operations addNotificationMessage, tick and
\* acknowledgeNotification (SubSpec: no caller pops a notification itself),
\* notifications are emitted in the order they were added, each at most
\* once and at most one per tick; every notification added is in exactly
\* one of the pending queue, the sent queue, or removed.
C17_QueueDiscipline ==
    seen.created =>
        /\ IsPrefix([i \in 1..Len(Notified) |-> Notified[i].arg], seen.added)
        /\ \A i, j \in 1..Len(Notified) : i # j => Notified[i].tick # Notified[j].tick
        /\ pendingNotificationsCount(sub) + sentNotificationsCount(sub) + seen.removed
              = Len(seen.added)
        /\ Numbers(sub.pending_notifications) \cap Numbers(sub.sent_notifications) = {}
        /\ Cardinality(Numbers(sub.pending_notifications)) = pendingNotificationsCount(sub)
        /\ Cardinality(Numbers(sub.sent_notifications)) = sentNotificationsCount(sub)

C17_Witness ==
    /\ seen.created
    /\ Len(Notified) > 1
    /\ pendingNotificationsCount(sub) > 0
    /\ sentNotificationsCount(sub) > 0
    /\ seen.removed > 0

\* C18: once terminate() has run, on the user's call or on expiry, no tick
\* runs and no event is emitted; 'expired' is emitted at most once.
C18_TerminationIsFinal ==
    seen.closedAt # -1 =>
        /\ Len(emitted) = seen.closedAt
        /\ Cardinality({i \in 1..Len(emitted) : emitted[i].ev = "expired"}) <= 1

\* terminate() was called before the first tick, and events were emitted
C18_Witness ==
    /\ seen.closedAt = 0
    /\ sub.timerId = 0
    /\ Len(emitted) > 0

\* the Subscription expired twice
C18_ExpiredTwice ==
    Cardinality({i \in 1..Len(emitted) : emitted[i].ev = "expired"}) > 1
====
